---------------------------- MODULE Spec2Model ----------------------------
(***************************************************************************)
(* A model of the "Go to Next Problem" extension (src/src/extension.ts):   *)
(* the glob matcher, the marker filter, the location comparator, the       *)
(* closest-marker selectors and the two navigation commands.               *)
(*                                                                         *)
(* JavaScript strings are sequences of one-character strings.  An optional *)
(* value (undefined, null) is the empty sequence, a present value v is the *)
(* one-element sequence <<v>>.                                             *)
(***************************************************************************)
EXTENDS Integers, Sequences, FiniteSets, TLC

VARIABLES
    \* Pattern Matcher (SpecMatch)
    pattern, candidate, matchResult,
    \* Marker Filter (SpecFilter)
    ds, args, filterResult,
    \* Closest-Marker Selector (SpecFold)
    cursor, markers, index, direction, soFarClosest,
    \* Navigation Session (Spec)
    lastPosition, activeTextEditor, diagnostics, request,
    \* Location Comparator (SpecCompare)
    locs, compared,
    \* Overlapping Requests (SpecAsync)
    tasks,
    \* Repeated Requests (SpecCycle)
    fixed

vars == <<pattern, candidate, matchResult, ds, args, filterResult,
          cursor, markers, index, direction, soFarClosest,
          lastPosition, activeTextEditor, diagnostics, request,
          locs, compared, tasks, fixed>>

matchVars == <<pattern, candidate, matchResult>>
filterVars == <<ds, args, filterResult>>
foldVars == <<cursor, markers, index, direction, soFarClosest>>
navVars == <<lastPosition, activeTextEditor, diagnostics, request>>
compareVars == <<locs, compared>>
asyncVars == <<tasks>>
cycleVars == <<fixed>>

(***************************************************************************)
(* Bounds                                                                  *)
(***************************************************************************)
MaxPatternLen == 3
MaxStringLen == 2
\* SpecFilter: markers in a list, entries in args.severity and args.source
MaxFilterMarkers == 2
MaxSeverityEntries == 1
MaxSourceEntries == 2
\* SpecFold: positions 0..MaxFoldPosition, candidates in a list
MaxFoldPosition == 2
MaxFoldMarkers == 3
\* Spec: positions 0..MaxPosition, markers published at a time
MaxPosition == 1
\* Spec: markers published at a time
MaxDiagnostics == 2
\* SpecAsync: positions 0..MaxAsyncPosition, markers published
MaxAsyncPosition == 1
MaxAsyncMarkers == 2
\* SpecCycle: positions 0..MaxCyclePosition, markers published
MaxCyclePosition == 2
MaxCycleMarkers == 2

(***************************************************************************)
(* Generic helpers                                                         *)
(***************************************************************************)
None == <<>>
Some(v) == <<v>>

SeqsUpTo(S, n) == UNION {[1..k -> S] : k \in 0..n}


(***************************************************************************)
(* Pattern Matcher: globToRe and the RegExp it builds                      *)
(***************************************************************************)
\* The characters the first replace of globToRe escapes: [-\/\\^$+?.()[\]{}]
EscapedChars == {"-", "/", "\\", "^", "$", "+", "?", ".", "(", ")", "[", "]", "{", "}"}

\* A mutant of EscapeChar: the dot is left unescaped.
EscapeCharNoDot(c) == IF c \in EscapedChars \ {"."} THEN <<"\\", c>> ELSE <<c>>

\* .replace(/[-\/\\^$+?.()[\]{}]/g, "\\$&")
EscapeChar(c) == IF c \in EscapedChars THEN <<"\\", c>> ELSE <<c>>

\* .replace(/\*/g, ".*")
StarChar(c) == IF c = "*" THEN <<".", "*">> ELSE <<c>>

\* The source text of the RegExp globToRe returns.
\* The two replace calls, each over every character of its input.
RECURSIVE ReplaceEscaped(_)
ReplaceEscaped(p) ==
    IF p = <<>> THEN <<>> ELSE EscapeChar(Head(p)) \o ReplaceEscaped(Tail(p))

RECURSIVE ReplaceStars(_)
ReplaceStars(p) ==
    IF p = <<>> THEN <<>> ELSE StarChar(Head(p)) \o ReplaceStars(Tail(p))

globToRe(p) == <<"^">> \o ReplaceStars(ReplaceEscaped(p)) \o <<"$">>

\* Line terminators: the characters "." does not match (no s flag).
LineTerminators == {"\n", "\r"}

(* The RegExp source is parsed into alternatives (split at "|"), each a     *)
(* sequence of terms: the assertions ^ and $, or an atom (an escaped or     *)
(* plain literal, or the dot) with an optional star.                        *)
RECURSIVE ParseTerms(_)
ParseTerms(re) ==
    IF re = <<>> THEN <<>>
    ELSE LET c == Head(re)
             isEsc == c = "\\" /\ Len(re) >= 2
             atomLen == IF isEsc THEN 2 ELSE 1
             rest == SubSeq(re, atomLen + 1, Len(re))
             star == rest # <<>> /\ Head(rest) = "*"
             after == IF star THEN Tail(rest) ELSE rest
             term == IF isEsc THEN [kind |-> "char", ch |-> re[2], star |-> star]
                     ELSE IF c = "^" THEN [kind |-> "bol", ch |-> c, star |-> FALSE]
                     ELSE IF c = "$" THEN [kind |-> "eol", ch |-> c, star |-> FALSE]
                     ELSE IF c = "." THEN [kind |-> "any", ch |-> c, star |-> star]
                     ELSE [kind |-> "char", ch |-> c, star |-> star]
         IN  IF term.kind \in {"bol", "eol"}
             THEN <<term>> \o ParseTerms(Tail(re))
             ELSE <<term>> \o ParseTerms(after)

RECURSIVE SplitAlternatives(_, _)
SplitAlternatives(re, acc) ==
    IF re = <<>> THEN <<acc>>
    ELSE IF Head(re) = "\\" /\ Len(re) >= 2
         THEN SplitAlternatives(SubSeq(re, 3, Len(re)), acc \o SubSeq(re, 1, 2))
    ELSE IF Head(re) = "|"
         THEN <<acc>> \o SplitAlternatives(Tail(re), <<>>)
    ELSE SplitAlternatives(Tail(re), Append(acc, Head(re)))

AtomMatches(term, c) ==
    IF term.kind = "any" THEN c \notin LineTerminators ELSE c = term.ch

\* Can terms[k..] match s starting at character i (1-based), ending anywhere?
RECURSIVE MatchFrom(_, _, _, _)
MatchFrom(terms, k, s, i) ==
    IF k > Len(terms) THEN TRUE
    ELSE LET t == terms[k] IN
         IF t.kind = "bol" THEN i = 1 /\ MatchFrom(terms, k + 1, s, i)
         ELSE IF t.kind = "eol" THEN i = Len(s) + 1 /\ MatchFrom(terms, k + 1, s, i)
         ELSE IF t.star
              THEN \/ MatchFrom(terms, k + 1, s, i)
                   \/ /\ i <= Len(s)
                      /\ AtomMatches(t, s[i])
                      /\ MatchFrom(terms, k, s, i + 1)
         ELSE /\ i <= Len(s)
              /\ AtomMatches(t, s[i])
              /\ MatchFrom(terms, k + 1, s, i + 1)

\* s.match(re) !== null for a RegExp without flags: some alternative matches
\* at some start index.
RegExpMatches(re, s) ==
    LET alts == SplitAlternatives(re, <<>>) IN
    \E a \in 1..Len(alts) : \E i \in 1..(Len(s) + 1) :
        MatchFrom(ParseTerms(alts[a]), 1, s, i)

\* dg.source.match(globToRe(source)) !== null
SourceMatches(p, s) == RegExpMatches(globToRe(p), s)

(***************************************************************************)
(* JavaScript values of the command arguments.  A value carries its type;  *)
(* strings are sequences of characters.                                    *)
(***************************************************************************)
JsUndefined == [type |-> "undefined"]
JsNull == [type |-> "null"]
JsNumber(n) == [type |-> "number", num |-> n]
JsString(s) == [type |-> "string", str |-> s]
JsArray(items) == [type |-> "array", items |-> items]
\* An object literal with the two properties the code reads.
JsObject(sev, src) == [type |-> "object", severity |-> sev, source |-> src]

\* typeof v
TypeOf(v) ==
    IF v.type \in {"null", "array", "object"} THEN "object" ELSE v.type

\* Array.isArray(v)
IsArray(v) == v.type = "array"

\* !v is false: v is truthy
Truthy(v) ==
    CASE v.type \in {"undefined", "null"} -> FALSE
      [] v.type = "number" -> v.num # 0
      [] v.type = "string" -> v.str # <<>>
      [] OTHER -> TRUE

\* Reading a property of null or undefined raises a TypeError.
PropertyReadThrows(v) == v.type \in {"undefined", "null"}

\* args.severity and args.source: a property the value lacks reads undefined.
GetSeverity(v) == IF v.type = "object" THEN v.severity ELSE JsUndefined
GetSource(v) == IF v.type = "object" THEN v.source ELSE JsUndefined

StrError == <<"e", "r", "r", "o", "r">>
StrWarn == <<"w", "a", "r", "n">>
StrWarning == <<"w", "a", "r", "n", "i", "n", "g">>
StrInfo == <<"i", "n", "f", "o">>
StrInformation == <<"i", "n", "f", "o", "r", "m", "a", "t", "i", "o", "n">>
StrHint == <<"h", "i", "n", "t">>
StrFoo == <<"f", "o", "o">>

(***************************************************************************)
(* Marker Filter: filterDiagnostics                                        *)
(***************************************************************************)
\* vscode.DiagnosticSeverity
Error == "Error"
Warning == "Warning"
Information == "Information"
Hint == "Hint"
Severities == {Error, Warning, Information, Hint}
\* The value a switch without a matching case leaves the callback returning.
Undefined == "undefined"

\* The outcome of a call: a returned value or a raised TypeError.
Returned(v) == [throws |-> FALSE, value |-> v]
Thrown == [throws |-> TRUE, value |-> <<>>]

\* The callback of args.severity.flatMap: the elements flatMap appends for
\* one entry.  A matched case returns a one-element array, which flatMap
\* flattens; no case matching, the callback returns undefined, which flatMap
\* appends as it is.
SeverityCallback(s) ==
    CASE s = JsString(StrError) -> <<Error>>
      [] s = JsString(StrWarn) -> <<Warning>>
      [] s = JsString(StrWarning) -> <<Warning>>
      [] s = JsString(StrInfo) -> <<Information>>
      [] s = JsString(StrInformation) -> <<Information>>
      [] s = JsString(StrHint) -> <<Hint>>
      [] OTHER -> <<Undefined>>

\* args.severity.flatMap(callback)
RECURSIVE SeverityFlatMap(_)
SeverityFlatMap(items) ==
    IF items = <<>> THEN <<>>
    ELSE SeverityCallback(Head(items)) \o SeverityFlatMap(Tail(items))

\* The severities set after lines 59-81.
SeveritySet(a) ==
    LET default == {Error, Warning} IN
    IF TypeOf(a) = "object" /\ IsArray(GetSeverity(a))
    THEN LET argSeverities == SeverityFlatMap(GetSeverity(a).items)
         IN  IF Len(argSeverities) > 0
             THEN {argSeverities[i] : i \in 1..Len(argSeverities)}
             ELSE default
    ELSE default

\* dg.source !== undefined && dg.source.match(reSource) !== null
SourceTest(dg, source) ==
    dg.source # None /\ SourceMatches(source.str, dg.source[1])

\* A mutant of WalkSources: "*" is compiled like any other pattern.
RECURSIVE WalkSourcesNoWildcard(_, _, _)
WalkSourcesNoWildcard(dsSev, sources, k) ==
    IF k > Len(sources) THEN Returned(<<>>)
    ELSE LET source == sources[k] IN
         IF source.type # "string" THEN Thrown
         ELSE LET Test(dg) == SourceTest(dg, source)
                  dsOfSource == SelectSeq(dsSev, Test)
              IN  IF Len(dsOfSource) > 0 THEN Returned(dsOfSource)
                  ELSE WalkSourcesNoWildcard(dsSev, sources, k + 1)

\* A mutant of WalkSources: a non-empty subset does not end the walk; the
\* markers of every pattern are returned.
WalkSourcesNoPriority(dsSev, sources, k) ==
    IF \E j \in k..Len(sources) : sources[j].type # "string" THEN Thrown
    ELSE LET Test(dg) == \E j \in k..Len(sources) :
                            \/ sources[j] = JsString(<<"*">>)
                            \/ SourceTest(dg, sources[j])
         IN  Returned(SelectSeq(dsSev, Test))

\* The loop of lines 91-104 from entry k of args.source on.
RECURSIVE WalkSources(_, _, _)
WalkSources(dsSev, sources, k) ==
    IF k > Len(sources) THEN Returned(<<>>)
    ELSE LET source == sources[k] IN
         IF source = JsString(<<"*">>) THEN Returned(dsSev)
         \* globToRe calls source.replace: a TypeError unless source is a string
         ELSE IF source.type # "string" THEN Thrown
         ELSE LET Test(dg) == SourceTest(dg, source)
                  dsOfSource == SelectSeq(dsSev, Test)
              IN  IF Len(dsOfSource) > 0 THEN Returned(dsOfSource)
                  ELSE WalkSources(dsSev, sources, k + 1)

filterDiagnostics(dsIn, a) ==
    \* typeof null is "object": args.severity is read of null
    IF TypeOf(a) = "object" /\ PropertyReadThrows(a) THEN Thrown
    ELSE LET severities == SeveritySet(a)
             Has(dg) == dg.severity \in severities
             dsSev == SelectSeq(dsIn, Has)
         IN  IF \/ TypeOf(a) # "object"
                \/ ~Truthy(GetSource(a))
                \/ ~IsArray(GetSource(a))
             THEN Returned(dsSev)
             ELSE WalkSources(dsSev, GetSource(a).items, 1)

(***************************************************************************)
(* Location Comparator: vscode.Position, Uri strings, compareDiagnosticLoc *)
(***************************************************************************)
\* vscode.Position
Position(l, c) == [line |-> l, character |-> c]
\* Position.isBefore
IsBefore(p, q) ==
    p.line < q.line \/ (p.line = q.line /\ p.character < q.character)
\* Position.isEqual
IsEqual(p, q) == p.line = q.line /\ p.character = q.character

\* The UTF-16 code units of the characters of the modelled Uri strings.
CodeUnit(c) ==
    CASE c = "/" -> 47 [] c = ":" -> 58 [] c = "a" -> 97 [] c = "b" -> 98
      [] c = "e" -> 101 [] c = "f" -> 102 [] c = "i" -> 105 [] c = "l" -> 108

\* a < b on JavaScript strings: lexicographic by code unit, a proper prefix first.
RECURSIVE StringLess(_, _)
StringLess(a, b) ==
    IF b = <<>> THEN FALSE
    ELSE IF a = <<>> THEN TRUE
    ELSE IF Head(a) = Head(b) THEN StringLess(Tail(a), Tail(b))
    ELSE CodeUnit(Head(a)) < CodeUnit(Head(b))

\* vscode.Uri.file(path).toString()
FileUri(path) == <<"f", "i", "l", "e", ":", "/", "/">> \o path

\* A mutant of compareDiagnosticLoc: the test uria === urib is left out, so
\* two locations of one document are ordered by their uris.
compareDiagnosticLocNoSameUri(a, b) ==
    LET uria == a.uri
        urib == b.uri
    IN  IF uria = None \/ urib = None
        THEN IF IsBefore(a.start, b.start) THEN -1
             ELSE IF IsEqual(a.start, b.start) THEN 0 ELSE 1
        ELSE IF StringLess(uria[1], urib[1]) THEN -1 ELSE 1

(* A DiagnosticLoc is [uri, start]: the optional uri string (a.uri?.toString()) *)
(* and range.start, the one part of the range the code reads.                 *)
compareDiagnosticLoc(a, b) ==
    LET uria == a.uri
        urib == b.uri
    IN  IF uria = None \/ urib = None \/ uria = urib
        THEN IF IsBefore(a.start, b.start) THEN -1
             ELSE IF IsEqual(a.start, b.start) THEN 0 ELSE 1
        ELSE IF StringLess(uria[1], urib[1]) THEN -1 ELSE 1

(***************************************************************************)
(* Closest-Marker Selector: getCloserPrev, getCloserNext                   *)
(***************************************************************************)
\* The location of a marker: the fields compareDiagnosticLoc reads.
Loc(d) == [uri |-> d.uri, start |-> d.start]

\* A mutant of getCloserPrev: once a closest marker is known, a later marker
\* is not tested against the cursor.
getCloserPrevNoCursorTest(cur, marker, soFar) ==
    IF soFar = None
    THEN IF compareDiagnosticLoc(Loc(marker), cur) < 0 THEN Some(marker) ELSE None
    ELSE IF compareDiagnosticLoc(Loc(soFar[1]), Loc(marker)) < 0
         THEN Some(marker)
         ELSE soFar

getCloserPrev(cur, marker, soFar) ==
    IF soFar = None
    THEN IF compareDiagnosticLoc(Loc(marker), cur) < 0 THEN Some(marker) ELSE None
    ELSE IF /\ compareDiagnosticLoc(Loc(marker), cur) <= 0
            /\ compareDiagnosticLoc(Loc(soFar[1]), Loc(marker)) < 0
         THEN Some(marker)
         ELSE soFar

\* A mutant of getCloserNext: a marker at the cursor is not taken first.
getCloserNextStrict(cur, marker, soFar) ==
    IF soFar = None
    THEN IF compareDiagnosticLoc(Loc(marker), cur) > 0 THEN Some(marker) ELSE None
    ELSE IF /\ compareDiagnosticLoc(Loc(marker), cur) >= 0
            /\ compareDiagnosticLoc(Loc(soFar[1]), Loc(marker)) > 0
         THEN Some(marker)
         ELSE soFar

getCloserNext(cur, marker, soFar) ==
    IF soFar = None
    THEN IF compareDiagnosticLoc(Loc(marker), cur) >= 0 THEN Some(marker) ELSE None
    ELSE IF /\ compareDiagnosticLoc(Loc(marker), cur) >= 0
            /\ compareDiagnosticLoc(Loc(soFar[1]), Loc(marker)) > 0
         THEN Some(marker)
         ELSE soFar

(***************************************************************************)
(* SpecMatch: the matcher applied to every bounded pattern and candidate   *)
(***************************************************************************)
Alphabet == {"a", "*", "|", ".", "\n"}
Patterns == SeqsUpTo(Alphabet, MaxPatternLen)
Candidates == SeqsUpTo(Alphabet, MaxStringLen)

IdleMatch == pattern = <<>> /\ candidate = <<>> /\ matchResult = None
IdleFilter == ds = <<>> /\ args = None /\ filterResult = None
IdleFold == /\ cursor = None /\ markers = <<>> /\ index = 0
            /\ direction = "next" /\ soFarClosest = None
IdleNav == /\ lastPosition = None /\ activeTextEditor = None
           /\ diagnostics = <<>> /\ request = None
IdleCompare == locs = <<>> /\ compared = None
IdleAsync == tasks = <<>>
IdleCycle == fixed = None

InitMatch ==
    /\ pattern \in Patterns
    /\ candidate \in Candidates
    /\ matchResult = None
    /\ IdleFilter /\ IdleFold /\ IdleNav /\ IdleCompare
    /\ IdleAsync /\ IdleCycle

Match ==
    /\ matchResult = None
    /\ matchResult' = Some(SourceMatches(pattern, candidate))
    /\ UNCHANGED <<pattern, candidate, filterVars, foldVars, navVars, compareVars, asyncVars, cycleVars>>

NextMatch == Match

SpecMatch == InitMatch /\ [][NextMatch]_vars

(***************************************************************************)
(* SpecFilter: filterDiagnostics applied to bounded marker lists and args  *)
(***************************************************************************)
MarkerSources == {None, Some(<<"a">>), Some(<<"b">>)}
FilterMarkers == [severity : Severities, source : MarkerSources]
FilterMarkerLists == SeqsUpTo(FilterMarkers, MaxFilterMarkers)

\* Entries of args.severity: the six recognized strings, an unknown string
\* and a non-string.
SeverityEntries ==
    {JsString(s) : s \in {StrError, StrWarn, StrWarning, StrInfo,
                          StrInformation, StrHint, StrFoo}} \cup {JsNumber(5)}
\* Lists that name several severities or mix known and unknown entries.
MixedSeverityLists ==
    {<<JsString(StrError), JsString(StrWarning)>>,
     <<JsString(StrError), JsString(StrFoo)>>,
     <<JsString(StrFoo), JsString(StrHint)>>,
     <<JsNumber(5), JsString(StrFoo)>>,
     <<JsString(StrInfo), JsString(StrHint)>>}
\* Values of args.severity: absent, of the wrong type, or a list.
SeverityValues ==
    {JsUndefined, JsString(StrError)}
        \cup {JsArray(l) : l \in SeqsUpTo(SeverityEntries, MaxSeverityEntries)}
        \cup {JsArray(l) : l \in MixedSeverityLists}

\* Entries of args.source: patterns and a non-string.
SourceEntries ==
    {JsString(p) : p \in {<<"*">>, <<"a">>, <<"b">>, <<"a", "|", "b">>}}
        \cup {JsNumber(5)}
\* Values of args.source: absent, of the wrong type, or a list.
SourceValues ==
    {JsUndefined, JsString(<<"a">>)}
        \cup {JsArray(l) : l \in SeqsUpTo(SourceEntries, MaxSourceEntries)}

\* Severity selections paired with every source value.
PairedSeverityValues ==
    {JsUndefined, JsArray(<<JsString(StrError)>>),
     JsArray(<<JsString(StrInfo), JsString(StrHint)>>)}

\* The args a command can receive: anything a keybinding or a caller passes.
FilterArgs ==
    {JsUndefined, JsNull, JsNumber(5), JsString(<<"a">>), JsArray(<<>>)}
        \cup {JsObject(sev, JsUndefined) : sev \in SeverityValues}
        \cup {JsObject(sev, src) : sev \in PairedSeverityValues, src \in SourceValues}

InitFilter ==
    /\ ds \in FilterMarkerLists
    /\ args \in {Some(a) : a \in FilterArgs}
    /\ filterResult = None
    /\ IdleMatch /\ IdleFold /\ IdleNav /\ IdleCompare
    /\ IdleAsync /\ IdleCycle

CallFilter ==
    /\ filterResult = None
    /\ filterResult' = Some(filterDiagnostics(ds, args[1]))
    /\ UNCHANGED <<ds, args, matchVars, foldVars, navVars, compareVars, asyncVars, cycleVars>>

NextFilter == CallFilter

SpecFilter == InitFilter /\ [][NextFilter]_vars

(***************************************************************************)
(* SpecFold: the selectors folded over bounded candidate lists, as the     *)
(* loops of gotoMarkerInFile and gotoNextMarkerInFiles thread them         *)
(***************************************************************************)
\* Position number k: the numbering runs down the first two lines, column
\* after column, so that it is not the order of the positions.
PositionNumber(k) == Position(k % 2, k \div 2)
FoldPositions == {PositionNumber(k) : k \in 0..MaxFoldPosition}
\* The documents: document.uri.toString()
Uris == {FileUri(<<"/", "a">>), FileUri(<<"/", "b">>)}
\* vscode.Uri.file("/") of the cursor made up when no editor is active
RootUri == FileUri(<<"/">>)

\* In-document mode: neither the cursor nor a vscode.Diagnostic has a uri.
FileLocs == [uri : {None}, start : FoldPositions]
\* Cross-document mode: every marker carries the uri of its document.
FilesLocs == [uri : {Some(u) : u \in Uris}, start : FoldPositions]
\* The cursor of cross-document mode: the active selection, or the start of
\* the root when no editor is active.
FilesCursors == FilesLocs \cup {[uri |-> Some(RootUri), start |-> Position(0, 0)]}

InitFold ==
    /\ \/ /\ cursor \in {Some(c) : c \in FileLocs}
          /\ markers \in SeqsUpTo(FileLocs, MaxFoldMarkers)
       \/ /\ cursor \in {Some(c) : c \in FilesCursors}
          /\ markers \in SeqsUpTo(FilesLocs, MaxFoldMarkers)
    /\ index = 0
    /\ direction \in {"next", "prev"}
    /\ soFarClosest = None
    /\ IdleMatch /\ IdleFilter /\ IdleNav /\ IdleCompare
    /\ IdleAsync /\ IdleCycle

\* One iteration of the loop with direction === "next".
FoldNext ==
    /\ direction = "next"
    /\ index < Len(markers)
    /\ index' = index + 1
    /\ soFarClosest' = getCloserNext(cursor[1], markers[index + 1], soFarClosest)
    /\ UNCHANGED <<cursor, markers, direction, matchVars, filterVars, navVars, compareVars, asyncVars, cycleVars>>

\* One iteration of the loop with direction === "prev".
FoldPrev ==
    /\ direction = "prev"
    /\ index < Len(markers)
    /\ index' = index + 1
    /\ soFarClosest' = getCloserPrev(cursor[1], markers[index + 1], soFarClosest)
    /\ UNCHANGED <<cursor, markers, direction, matchVars, filterVars, navVars, compareVars, asyncVars, cycleVars>>

NextFold == FoldNext \/ FoldPrev

SpecFold == InitFold /\ [][NextFold]_vars

(***************************************************************************)
(* SpecCompare: compareDiagnosticLoc applied to every pair of three        *)
(* locations of its parameter type, DiagnosticLoc, whose uri is optional   *)
(***************************************************************************)
DiagnosticLocs == FileLocs \cup FilesLocs

InitCompare ==
    /\ locs \in [1..3 -> DiagnosticLocs]
    /\ compared = None
    /\ IdleMatch /\ IdleFilter /\ IdleFold /\ IdleNav
    /\ IdleAsync /\ IdleCycle

\* compared[i][j] is compareDiagnosticLoc(locs[i], locs[j]).
Compare ==
    /\ compared = None
    /\ compared' = Some([i \in 1..3 |->
                           [j \in 1..3 |-> compareDiagnosticLoc(locs[i], locs[j])]])
    /\ UNCHANGED <<locs, matchVars, filterVars, foldVars, navVars,
                   asyncVars, cycleVars>>

NextCompare == Compare

SpecCompare == InitCompare /\ [][NextCompare]_vars

(***************************************************************************)
(* Navigation Session: gotoMarkerInFile, gotoNextMarkerInFiles             *)
(*                                                                         *)
(* A marker is [uri, start, severity, source]; diagnostics holds the       *)
(* markers of all documents, those of one document next to each other, as  *)
(* vscode.languages.getDiagnostics() groups them.  activeTextEditor is     *)
(* [uri, selection], the selection given by its start, the one part the    *)
(* code reads; the commands set an empty selection.                        *)
(***************************************************************************)
\* sortDiagnostics: Array.prototype.sort is stable; insertion keeps equal
\* elements in their order.
RECURSIVE InsertSorted(_, _)
InsertSorted(d, sorted) ==
    IF sorted = <<>> THEN <<d>>
    ELSE IF compareDiagnosticLoc(Loc(d), Loc(Head(sorted))) < 0
         THEN <<d>> \o sorted
    ELSE <<Head(sorted)>> \o InsertSorted(d, Tail(sorted))

RECURSIVE sortDiagnostics(_)
sortDiagnostics(l) ==
    IF l = <<>> THEN <<>>
    ELSE InsertSorted(l[Len(l)], sortDiagnostics(SubSeq(l, 1, Len(l) - 1)))

\* isFilterErrorOnly
isFilterErrorOnly(a) ==
    /\ TypeOf(a) = "object"
    /\ ~PropertyReadThrows(a)
    /\ IsArray(GetSeverity(a))
    /\ GetSeverity(a).items # <<>>
    /\ GetSeverity(a).items[1] = JsString(StrError)

\* vscode.languages.getDiagnostics(uri): the markers of one document, which
\* carry no uri.
RECURSIVE DiagnosticsOf(_, _)
DiagnosticsOf(l, u) ==
    IF l = <<>> THEN <<>>
    ELSE (IF Head(l).uri = Some(u)
          THEN <<[Head(l) EXCEPT !.uri = None]>> ELSE <<>>)
         \o DiagnosticsOf(Tail(l), u)

\* A mutant of IsSkipped: no candidate is skipped.
IsSkippedNever(d, lp) == FALSE

\* Lines 198 and 312: the test that makes the loop skip candidate d.
IsSkipped(d, lp) == lp # None /\ IsEqual(d.start, lp[1].position)

\* The candidates the loop skips, in the order it meets them.
SkippedCandidates(l, lp) == SelectSeq(l, LAMBDA d : IsSkipped(d, lp))

\* The loops of lines 197-206 and 311-320 from candidate k on: a candidate
\* whose start equals lastPosition.position is skipped.
RECURSIVE FoldCandidates(_, _, _, _, _, _)
FoldCandidates(cur, l, k, dir, lp, next) ==
    IF k > Len(l) THEN next
    ELSE IF IsSkipped(l[k], lp)
         THEN FoldCandidates(cur, l, k + 1, dir, lp, next)
    ELSE FoldCandidates(cur, l, k + 1, dir, lp,
                        IF dir = "next" THEN getCloserNext(cur, l[k], next)
                        ELSE getCloserPrev(cur, l[k], next))

\* A mutant of WrapTarget: the ends are swapped.
WrapTargetSwapped(l, dir) ==
    LET sortedMarkers == sortDiagnostics(l)
    IN  IF dir = "next" THEN sortedMarkers[Len(sortedMarkers)] ELSE sortedMarkers[1]

\* Lines 210-214 and 324-328: the first or the last of the sorted markers.
WrapTarget(l, dir) ==
    LET sortedMarkers == sortDiagnostics(l)
    IN  IF dir = "next" THEN sortedMarkers[1] ELSE sortedMarkers[Len(sortedMarkers)]

\* A mutant of AlreadyThere: lastPosition is not consulted.
AlreadyThereCursorOnly(lp, next, selection) == IsEqual(selection, next.start)

\* A mutant of AlreadyThere: the check is left out.
AlreadyThereNever(lp, next, selection) == FALSE

\* Lines 218-222: lastPosition, the wrapped target and the cursor coincide.
AlreadyThere(lp, next, selection) ==
    /\ lp # None
    /\ IsEqual(lp[1].position, next.start)
    /\ IsEqual(selection, next.start)

\* A mutant of ResetLastPosition: lastPosition is dropped whatever its document.
ResetLastPositionAlways(lp, u) == None

\* Line 184: lastPosition is dropped when it is null or of another document.
ResetLastPosition(lp, u) ==
    IF lp # None /\ lp[1].uri = u THEN lp ELSE None

\* The outcome of a command: the session state and the editor it leaves,
\* what it returned, the marker it chose, whether the loop had found none
\* (next === null after it), the candidates the loop skipped and the
\* requests it issued.
Outcome(lp, editor, returned, target, wrapped, skipped, outputs) ==
    [lastPosition |-> lp, editor |-> editor, returned |-> returned,
     target |-> target, wrapped |-> wrapped, skipped |-> skipped,
     outputs |-> outputs]

\* Lines 240-267: the requests issued once the cursor is on the target.
\* visible: every visible range contains the new selection.
ShowMarkerInFile(a, visible) ==
    <<"closeMarkersNavigation">>
        \o (IF isFilterErrorOnly(a) THEN <<"editor.action.marker.next">>
            ELSE (IF visible THEN <<>> ELSE <<"revealRange">>)
                 \o <<"editor.action.showHover">>)

\* The chosen marker with the uri of the active document.
InDocument(next, u) == IF next = None THEN None ELSE Some([next[1] EXCEPT !.uri = Some(u)])
\* Markers of the active document with its uri.
AllInDocument(l, u) == [i \in 1..Len(l) |-> [l[i] EXCEPT !.uri = Some(u)]]

gotoMarkerInFile(lp0, editor, all, a, dir, loop, visible) ==
    IF editor = None THEN Outcome(lp0, editor, "false", None, FALSE, <<>>, <<>>)
    ELSE
    LET u == editor[1].uri
        filtered == filterDiagnostics(DiagnosticsOf(all, u), a).value
        lp == ResetLastPosition(lp0, u)
        cur == [uri |-> None, start |-> editor[1].selection]
        found == FoldCandidates(cur, filtered, 1, dir, lp, None)
        wrapped == found = None /\ loop
        next == IF wrapped THEN Some(WrapTarget(filtered, dir)) ELSE found
        skipped == AllInDocument(SkippedCandidates(filtered, lp), u)
    IN  IF Len(filtered) = 0
        THEN Outcome(lp, editor, "false", None, FALSE, <<>>, <<>>)
        ELSE IF wrapped /\ AlreadyThere(lp, next[1], editor[1].selection)
             THEN Outcome(lp, editor, "true", InDocument(next, u), TRUE,
                          skipped, <<>>)
        ELSE IF next = None
             THEN Outcome(lp, editor, "false", None, FALSE, skipped, <<>>)
        ELSE Outcome(Some([position |-> next[1].start, uri |-> u]),
                     Some([uri |-> u, selection |-> next[1].start]),
                     "true", InDocument(next, u), wrapped, skipped,
                     ShowMarkerInFile(a, visible))

gotoNextMarkerInFiles(lp, editor, all, a, dir) ==
    LET filtered == filterDiagnostics(all, a).value
        cur == IF editor = None
               THEN [uri |-> Some(RootUri), start |-> Position(0, 0)]
               ELSE [uri |-> Some(editor[1].uri), start |-> editor[1].selection]
        found == FoldCandidates(cur, filtered, 1, dir, lp, None)
        next == IF found = None THEN WrapTarget(filtered, dir) ELSE found[1]
    IN  IF Len(filtered) = 0
        THEN Outcome(lp, editor, "undefined", None, FALSE, <<>>, <<>>)
        ELSE Outcome(Some([position |-> next.start, uri |-> next.uri[1]]),
                     Some([uri |-> next.uri[1], selection |-> next.start]),
                     "undefined", Some(next), found = None,
                     SkippedCandidates(filtered, lp),
                     <<"showTextDocument", "closeMarkersNavigation",
                       IF dir = "next" THEN "editor.action.marker.nextInFiles"
                       ELSE "editor.action.marker.prevInFiles">>)

(***************************************************************************)
(* Spec: the session driven by the four commands and by the environment    *)
(* (the user moving the cursor or changing the editor, language services   *)
(* publishing and withdrawing markers)                                     *)
(***************************************************************************)
Positions == {PositionNumber(k) : k \in 0..MaxPosition}
NavSeverities == {Error, Hint}
NavMarkers ==
    [uri : {Some(u) : u \in Uris}, start : Positions,
     severity : NavSeverities, source : {None}]
\* The args of the keybindings: none, errors, errors and hints.
NavArgs ==
    {JsUndefined,
     JsObject(JsArray(<<JsString(StrError)>>), JsUndefined),
     JsObject(JsArray(<<JsString(StrError), JsString(StrHint)>>), JsUndefined)}
Editors == {None} \cup {Some(e) : e \in [uri : Uris, selection : Positions]}

Init ==
    /\ lastPosition = None
    /\ activeTextEditor = None
    /\ diagnostics = <<>>
    /\ request = None
    /\ IdleMatch /\ IdleFilter /\ IdleFold /\ IdleCompare
    /\ IdleAsync /\ IdleCycle

\* The command a request ran and what came of it.
Request(command, a, dir, loop, out) ==
    Some([command |-> command, args |-> a, direction |-> dir, loop |-> loop,
          returned |-> out.returned, target |-> out.target,
          wrapped |-> out.wrapped, skipped |-> out.skipped,
          outputs |-> out.outputs])

\* go-to-next-problem.next / .prev; loop is the parameter of gotoMarkerInFile,
\* which the registered commands leave at its default, true.
GotoInFile(a, dir, loop) ==
    /\ request = None
    /\ \E out \in {gotoMarkerInFile(lastPosition, activeTextEditor, diagnostics,
                                    a, dir, loop, visible) : visible \in BOOLEAN} :
          /\ lastPosition' = out.lastPosition
          /\ activeTextEditor' = out.editor
          /\ request' = Request("file", a, dir, loop, out)
    /\ UNCHANGED <<diagnostics, matchVars, filterVars, foldVars, compareVars, asyncVars, cycleVars>>

\* go-to-next-problem.nextInFiles / .prevInFiles
GotoInFiles(a, dir) ==
    /\ request = None
    /\ \E out \in {gotoNextMarkerInFiles(lastPosition, activeTextEditor,
                                         diagnostics, a, dir)} :
          /\ lastPosition' = out.lastPosition
          /\ activeTextEditor' = out.editor
          /\ request' = Request("files", a, dir, TRUE, out)
    /\ UNCHANGED <<diagnostics, matchVars, filterVars, foldVars, compareVars, asyncVars, cycleVars>>

\* The command's promise settles: its outcome has been delivered.
Settle ==
    /\ request # None
    /\ request' = None
    /\ UNCHANGED <<lastPosition, activeTextEditor, diagnostics,
                   matchVars, filterVars, foldVars, compareVars, asyncVars, cycleVars>>

\* The user focuses a document, moves the cursor or closes the editor.
ChangeEditor(e) ==
    /\ request = None
    /\ activeTextEditor' = e
    /\ UNCHANGED <<lastPosition, diagnostics, request,
                   matchVars, filterVars, foldVars, compareVars, asyncVars, cycleVars>>

\* The index of the last marker of document u, or the end of the list.
GroupEnd(l, u) ==
    LET same == {i \in 1..Len(l) : l[i].uri = u}
    IN  IF same = {} THEN Len(l) ELSE CHOOSE i \in same : \A j \in same : j <= i

\* A language service publishes marker m.
PublishDiagnostic(m) ==
    /\ request = None
    /\ Len(diagnostics) < MaxDiagnostics
    /\ LET k == GroupEnd(diagnostics, m.uri)
       IN  diagnostics' = SubSeq(diagnostics, 1, k) \o <<m>>
                            \o SubSeq(diagnostics, k + 1, Len(diagnostics))
    /\ UNCHANGED <<lastPosition, activeTextEditor, request,
                   matchVars, filterVars, foldVars, compareVars, asyncVars, cycleVars>>

\* A language service withdraws the marker at index i.
WithdrawDiagnostic(i) ==
    /\ request = None
    /\ i \in 1..Len(diagnostics)
    /\ diagnostics' = SubSeq(diagnostics, 1, i - 1)
                        \o SubSeq(diagnostics, i + 1, Len(diagnostics))
    /\ UNCHANGED <<lastPosition, activeTextEditor, request,
                   matchVars, filterVars, foldVars, compareVars, asyncVars, cycleVars>>

Next ==
    \/ \E a \in NavArgs, dir \in {"next", "prev"}, loop \in BOOLEAN :
          GotoInFile(a, dir, loop)
    \/ \E a \in NavArgs, dir \in {"next", "prev"} : GotoInFiles(a, dir)
    \/ Settle
    \/ \E e \in Editors : ChangeEditor(e)
    \/ \E m \in NavMarkers : PublishDiagnostic(m)
    \/ \E i \in 1..MaxDiagnostics : WithdrawDiagnostic(i)

Spec == Init /\ [][Next]_vars

(***************************************************************************)
(* SpecAsync: two requests that overlap.  A command is an async function:  *)
(* it runs without interruption up to an await, where another request may  *)
(* start or resume.  A task is one invocation; pc is the statement it is   *)
(* at:                                                                     *)
(*   "computed"  the target is chosen (lines 229 and 329), lastPosition    *)
(*               not yet written (lines 232 and 332)                       *)
(*   "open"      awaiting openTextDocument (line 336)                      *)
(*   "show"      awaiting showTextDocument (line 335)                      *)
(*   "close"     awaiting closeMarkersNavigation (lines 240 and 345)       *)
(*   "scroll"    awaiting the smooth scroll (line 262)                     *)
(*   "mark"      awaiting the marker or hover command (lines 245, 266,     *)
(*               349 and 353)                                              *)
(*   "done"      returned                                                  *)
(***************************************************************************)
Tasks == {"first", "second"}

\* A mutant of IsYieldPoint: an await between the choice of the target and
\* the write of lastPosition.
IsYieldPointAlsoComputed(pc) == TRUE

\* The statements at which a task is suspended, or not running at all.
IsYieldPoint(pc) ==
    pc \in {"idle", "open", "show", "close", "scroll", "mark", "done"}

\* JavaScript runs a task to its next await: task t runs only while every
\* other task is suspended.
CanRun(t) == \A o \in Tasks \ {t} : IsYieldPoint(tasks[o].pc)

IdleTask ==
    [pc |-> "idle", command |-> "none", args |-> JsUndefined,
     target |-> None, read |-> None, overlap |-> FALSE]

AsyncPositions == {PositionNumber(k) : k \in 0..MaxAsyncPosition}
AsyncMarkers ==
    [uri : {Some(u) : u \in Uris}, start : AsyncPositions,
     severity : {Error}, source : {None}]
AsyncArgs == {JsUndefined, JsObject(JsArray(<<JsString(StrError)>>), JsUndefined)}
AsyncEditors ==
    {None} \cup {Some(e) : e \in [uri : Uris, selection : AsyncPositions]}

\* Markers of one document are next to each other in getDiagnostics().
Grouped(l) ==
    \A i, j, k \in 1..Len(l) :
        (i < j /\ j < k /\ l[i].uri = l[k].uri) => l[j].uri = l[i].uri

InitAsync ==
    /\ lastPosition = None
    /\ activeTextEditor \in AsyncEditors
    /\ diagnostics \in {l \in SeqsUpTo(AsyncMarkers, MaxAsyncMarkers) : Grouped(l)}
    /\ request = None
    /\ tasks = [t \in Tasks |-> IdleTask]
    /\ fixed = None
    /\ IdleMatch /\ IdleFilter /\ IdleFold /\ IdleCompare

\* The tasks are named in the order of their invocation.
InOrder(t) == t = "first" \/ tasks["first"].pc # "idle"

\* Some other task is a cross-document request awaiting its document.
Overlaps(t) ==
    \E o \in Tasks \ {t} : tasks[o].command = "files" /\ tasks[o].pc = "open"

\* A command is invoked as task t and runs to the choice of its target, or
\* to its return when it selects none (lines 172-229 and 286-329).
StartInFile(t, a, dir) ==
    /\ tasks[t].pc = "idle" /\ CanRun(t) /\ InOrder(t)
    /\ \E out \in {gotoMarkerInFile(lastPosition, activeTextEditor, diagnostics,
                                    a, dir, TRUE, TRUE)} :
          LET moves == out.outputs # <<>>
              lp == IF activeTextEditor = None THEN lastPosition
                    ELSE ResetLastPosition(lastPosition, activeTextEditor[1].uri)
          IN  /\ lastPosition' = lp
              /\ tasks' = [tasks EXCEPT ![t] =
                    [pc |-> IF moves THEN "computed" ELSE "done",
                     command |-> "file", args |-> a,
                     target |-> out.target, read |-> lp,
                     overlap |-> Overlaps(t)]]
    /\ UNCHANGED <<activeTextEditor, diagnostics, request, matchVars, filterVars,
                   foldVars, compareVars, cycleVars>>

StartInFiles(t, a, dir) ==
    /\ tasks[t].pc = "idle" /\ CanRun(t) /\ InOrder(t)
    /\ \E out \in {gotoNextMarkerInFiles(lastPosition, activeTextEditor,
                                         diagnostics, a, dir)} :
          tasks' = [tasks EXCEPT ![t] =
              [pc |-> IF out.target # None THEN "computed" ELSE "done",
               command |-> "files", args |-> a,
               target |-> out.target, read |-> lastPosition,
               overlap |-> Overlaps(t)]]
    /\ UNCHANGED <<lastPosition, activeTextEditor, diagnostics, request,
                   matchVars, filterVars, foldVars, compareVars, cycleVars>>

\* Lines 232-240 and 332-336: lastPosition is written; the in-document
\* request moves the cursor of its editor, the cross-document request asks
\* for its document.
WriteLastPosition(t) ==
    /\ tasks[t].pc = "computed" /\ CanRun(t)
    /\ LET next == tasks[t].target[1] IN
       /\ lastPosition' = Some([position |-> next.start, uri |-> next.uri[1]])
       /\ IF tasks[t].command = "file"
          THEN /\ activeTextEditor' =
                    Some([uri |-> next.uri[1], selection |-> next.start])
               /\ tasks' = [tasks EXCEPT ![t].pc = "close"]
          ELSE /\ activeTextEditor' = activeTextEditor
               /\ tasks' = [tasks EXCEPT ![t].pc = "open"]
    /\ UNCHANGED <<diagnostics, request, matchVars, filterVars, foldVars,
                   compareVars, cycleVars>>

\* Line 336 resolves: the document is loaded and showTextDocument is called.
DocumentOpened(t) ==
    /\ tasks[t].pc = "open" /\ CanRun(t)
    /\ tasks' = [tasks EXCEPT ![t].pc = "show"]
    /\ UNCHANGED <<navVars, matchVars, filterVars, foldVars, compareVars, cycleVars>>

\* Lines 335-345: the document is shown in the active editor and the
\* cursor is put on the target.
DocumentShown(t) ==
    /\ tasks[t].pc = "show" /\ CanRun(t)
    /\ LET next == tasks[t].target[1] IN
       activeTextEditor' = Some([uri |-> next.uri[1], selection |-> next.start])
    /\ tasks' = [tasks EXCEPT ![t].pc = "close"]
    /\ UNCHANGED <<lastPosition, diagnostics, request, matchVars, filterVars,
                   foldVars, compareVars, cycleVars>>

\* Lines 240-266 and 345-353: closeMarkersNavigation resolves; the marker
\* or hover command is issued, the latter after the smooth scroll when the
\* target had to be revealed and smooth scrolling is on.
MarkersClosed(t, smooth) ==
    /\ tasks[t].pc = "close" /\ CanRun(t)
    /\ tasks' = [tasks EXCEPT ![t].pc =
          IF /\ tasks[t].command = "file"
             /\ ~isFilterErrorOnly(tasks[t].args)
             /\ smooth
          THEN "scroll" ELSE "mark"]
    /\ UNCHANGED <<navVars, matchVars, filterVars, foldVars, compareVars, cycleVars>>

\* Line 262: the wait for the smooth scroll is over.
Scrolled(t) ==
    /\ tasks[t].pc = "scroll" /\ CanRun(t)
    /\ tasks' = [tasks EXCEPT ![t].pc = "mark"]
    /\ UNCHANGED <<navVars, matchVars, filterVars, foldVars, compareVars, cycleVars>>

\* Lines 245, 266, 349 and 353 resolve: the command returns.
Shown(t) ==
    /\ tasks[t].pc = "mark" /\ CanRun(t)
    /\ tasks' = [tasks EXCEPT ![t].pc = "done"]
    /\ UNCHANGED <<navVars, matchVars, filterVars, foldVars, compareVars, cycleVars>>

\* The promises of the returned commands are dropped.
Forget ==
    /\ \A t \in Tasks : tasks[t].pc \in {"idle", "done"}
    /\ \E t \in Tasks : tasks[t].pc = "done"
    /\ tasks' = [t \in Tasks |-> IdleTask]
    /\ UNCHANGED <<navVars, matchVars, filterVars, foldVars, compareVars, cycleVars>>

NextAsync ==
    \/ \E t \in Tasks, a \in AsyncArgs, dir \in {"next", "prev"} :
          StartInFile(t, a, dir)
    \/ \E t \in Tasks, a \in AsyncArgs, dir \in {"next", "prev"} :
          StartInFiles(t, a, dir)
    \/ \E t \in Tasks : WriteLastPosition(t)
    \/ \E t \in Tasks : DocumentOpened(t)
    \/ \E t \in Tasks : DocumentShown(t)
    \/ \E t \in Tasks, smooth \in BOOLEAN : MarkersClosed(t, smooth)
    \/ \E t \in Tasks : Scrolled(t)
    \/ \E t \in Tasks : Shown(t)
    \/ Forget

SpecAsync == InitAsync /\ [][NextAsync]_vars

(***************************************************************************)
(* SpecCycle: one command of the extension, with fixed args, issued again  *)
(* and again on a fixed set of markers, each request returning before the  *)
(* next is issued; the cursor is moved by the requests only.  The user     *)
(* keeps pressing the key and every command returns: weak fairness of the  *)
(* step.                                                                   *)
(***************************************************************************)
CyclePositions == {PositionNumber(k) : k \in 0..MaxCyclePosition}
CycleMarkers ==
    [uri : {Some(u) : u \in Uris}, start : CyclePositions,
     severity : NavSeverities, source : {None}]
CycleArgs == {JsUndefined, JsObject(JsArray(<<JsString(StrError)>>), JsUndefined)}
CycleEditors ==
    {None} \cup {Some(e) : e \in [uri : Uris, selection : CyclePositions]}
\* The four registered commands (lines 359-377).
CycleCommands ==
    [command : {"file", "files"}, args : CycleArgs, direction : {"next", "prev"}]

\* The setting of the repetition: the markers published, the editor the
\* user has focused and the cursor in it, the key the user will press.
InitCycle ==
    /\ lastPosition = None
    /\ activeTextEditor \in CycleEditors
    /\ diagnostics \in {l \in SeqsUpTo(CycleMarkers, MaxCycleMarkers) : Grouped(l)}
    /\ request = None
    /\ fixed \in {Some(c) : c \in CycleCommands}
    /\ IdleMatch /\ IdleFilter /\ IdleFold /\ IdleCompare /\ IdleAsync

\* go-to-next-problem.next / .prev is issued once more.
AgainInFile ==
    /\ request = None
    /\ fixed # None
    /\ fixed[1].command = "file"
    /\ \E out \in {gotoMarkerInFile(lastPosition, activeTextEditor, diagnostics,
                                    fixed[1].args, fixed[1].direction, TRUE,
                                    visible) : visible \in BOOLEAN} :
          /\ lastPosition' = out.lastPosition
          /\ activeTextEditor' = out.editor
          /\ request' = Request("file", fixed[1].args, fixed[1].direction, TRUE, out)
    /\ UNCHANGED <<diagnostics, fixed, matchVars, filterVars, foldVars,
                   compareVars, asyncVars>>

\* go-to-next-problem.nextInFiles / .prevInFiles is issued once more.
AgainInFiles ==
    /\ request = None
    /\ fixed # None
    /\ fixed[1].command = "files"
    /\ \E out \in {gotoNextMarkerInFiles(lastPosition, activeTextEditor,
                                         diagnostics, fixed[1].args,
                                         fixed[1].direction)} :
          /\ lastPosition' = out.lastPosition
          /\ activeTextEditor' = out.editor
          /\ request' = Request("files", fixed[1].args, fixed[1].direction, TRUE, out)
    /\ UNCHANGED <<diagnostics, fixed, matchVars, filterVars, foldVars,
                   compareVars, asyncVars>>

\* The command returns.
CommandReturned ==
    /\ request # None
    /\ fixed # None
    /\ request' = None
    /\ UNCHANGED <<lastPosition, activeTextEditor, diagnostics, fixed,
                   matchVars, filterVars, foldVars, compareVars, asyncVars>>

NextCycle == AgainInFile \/ AgainInFiles \/ CommandReturned

\* The key is pressed once more.
Again == AgainInFile \/ AgainInFiles

\* ENABLED <<Again>>_vars: the command can be issued whenever the last one
\* has returned, and issuing it changes request.
AgainEnabled == request = None /\ fixed # None

\* Every command returns (weak fairness of CommandReturned) and the user
\* keeps pressing the key (weak fairness of Again, with its enabling
\* condition written out).
FairCycle ==
    /\ WF_vars(CommandReturned)
    /\ ([]<>~AgainEnabled \/ []<><<Again>>_vars)

SpecCycle == InitCycle /\ [][NextCycle]_vars /\ FairCycle

(***************************************************************************)
(* Claims about the Pattern Matcher (SpecMatch)                            *)
(***************************************************************************)
\* The glob of the specification: "*" consumes zero or more characters of
\* anything, every other character, "|" included, is literal, and the whole
\* of s is consumed.
RECURSIVE GlobLiteral(_, _)
GlobLiteral(p, s) ==
    IF p = <<>> THEN s = <<>>
    ELSE IF Head(p) = "*"
         THEN \E k \in 0..Len(s) : GlobLiteral(Tail(p), SubSeq(s, k + 1, Len(s)))
    ELSE s # <<>> /\ Head(s) = Head(p) /\ GlobLiteral(Tail(p), Tail(s))

\* One alternative: "*" consumes zero or more characters other than line
\* terminators, every other character is literal.
RECURSIVE GlobAlternative(_, _)
GlobAlternative(p, s) ==
    IF p = <<>> THEN s = <<>>
    ELSE IF Head(p) = "*"
         THEN \E k \in 0..Len(s) :
                 /\ \A j \in 1..k : s[j] \notin LineTerminators
                 /\ GlobAlternative(Tail(p), SubSeq(s, k + 1, Len(s)))
    ELSE s # <<>> /\ Head(s) = Head(p) /\ GlobAlternative(Tail(p), Tail(s))

\* The positions of "|" in p, with 0 and Len(p) + 1 as the outer fences.
Bars(p) == {0, Len(p) + 1} \cup {i \in 1..Len(p) : p[i] = "|"}

\* p split at every "|": alternative between two neighbouring fences.
GlobWithAlternatives(p, s) ==
    \E lo \in Bars(p) : \E hi \in Bars(p) :
        /\ lo < hi
        /\ \A m \in Bars(p) : ~(lo < m /\ m < hi)
        /\ \E i \in 1..(Len(s) + 1) : \E j \in (i - 1)..Len(s) :
              \* the first alternative starts at the start of s
              /\ lo = 0 => i = 1
              \* the last alternative ends at the end of s
              /\ hi = Len(p) + 1 => j = Len(s)
              /\ GlobAlternative(SubSeq(p, lo + 1, hi - 1), SubSeq(s, i, j))

RecognizedSeverityStrings ==
    {StrError, StrWarn, StrWarning, StrInfo, StrInformation, StrHint}

\* The severity a recognized string names.
NamedSeverity(s) ==
    CASE s = StrError -> Error
      [] s \in {StrWarn, StrWarning} -> Warning
      [] s \in {StrInfo, StrInformation} -> Information
      [] s = StrHint -> Hint

IsStringList(v) ==
    v.type = "array" /\ \A i \in 1..Len(v.items) : v.items[i].type = "string"

\* A configuration as the Args interface declares it: no args, or an object
\* whose severity, if given, lists recognized strings and whose source, if
\* given, lists strings.
WellFormedArgs(a) ==
    \/ a = JsUndefined
    \/ /\ a.type = "object"
       /\ \/ a.severity = JsUndefined
          \/ /\ IsStringList(a.severity)
             /\ \A i \in 1..Len(a.severity.items) :
                   a.severity.items[i].str \in RecognizedSeverityStrings
       /\ a.source = JsUndefined \/ IsStringList(a.source)

\* The configured severity set: the default when none is listed.
ConfiguredSeverities(a) ==
    IF a.type = "object" /\ a.severity.type = "array" /\ a.severity.items # <<>>
    THEN {NamedSeverity(a.severity.items[i].str) : i \in 1..Len(a.severity.items)}
    ELSE {Error, Warning}

\* The subsequence of s at the indices in I.
RECURSIVE Pick(_, _, _)
Pick(s, I, k) ==
    IF k > Len(s) THEN <<>>
    ELSE (IF k \in I THEN <<s[k]>> ELSE <<>>) \o Pick(s, I, k + 1)

\* The test the filter applies to marker dg for pattern p.
MarkerMatches(dg, p) == dg.source # None /\ SourceMatches(p, dg.source[1])

\* Does the source of marker dg match pattern p?  The full wildcard "*"
\* matches every source.
SourceMatchesPattern(dg, p) ==
    dg.source # None /\ (p = <<"*">> \/ SourceMatches(p, dg.source[1]))

\* The two-stage reference filter.
ReferenceFilter(M, a) ==
    LET sevs == ConfiguredSeverities(a)
        kept == {i \in 1..Len(M) : M[i].severity \in sevs}
        pats == IF a.type = "object" /\ a.source.type = "array"
                THEN [i \in 1..Len(a.source.items) |-> a.source.items[i].str]
                ELSE <<>>
        Subset(k) == {i \in kept : MarkerMatches(M[i], pats[k])}
        Ends(k) == pats[k] = <<"*">> \/ Subset(k) # {}
        enders == {k \in 1..Len(pats) : Ends(k)}
    IN  IF a.type # "object" \/ a.source.type # "array" THEN Pick(M, kept, 1)
        ELSE IF enders = {} THEN <<>>
        ELSE LET k == CHOOSE e \in enders : \A o \in enders : e <= o
             IN  IF pats[k] = <<"*">> THEN Pick(M, kept, 1)
                 ELSE Pick(M, Subset(k), 1)

\* C5: for every marker list and every well-formed configuration,
\* filterDiagnostics returns what the two-stage reference filter returns.
C5_FilterEqualsReference ==
    (filterResult # None /\ WellFormedArgs(args[1])) =>
        filterResult[1] = Returned(ReferenceFilter(ds, args[1]))

\* C5 witness: the second pattern decided the result, after a first one
\* that matched no marker, and the severity stage had dropped a marker.
C5_Witness ==
    /\ filterResult # None
    /\ WellFormedArgs(args[1])
    /\ args[1].type = "object"
    /\ args[1].source.type = "array"
    /\ Len(args[1].source.items) = 2
    /\ args[1].source.items[2] # JsString(<<"*">>)
    /\ Len(ds) = 2
    /\ Len(filterResult[1].value) = 1
    /\ \E i \in 1..2 : ds[i].severity \notin ConfiguredSeverities(args[1])

TwoPatterns(a) ==
    /\ a.type = "object"
    /\ IsStringList(a.source)
    /\ Len(a.source.items) = 2

\* C6 as stated: with sourcePatterns = [p1, p2], if some marker of M has a
\* source matching p1, no marker of the result matches p2 but not p1.
C6_PriorityOverAllMarkers ==
    (filterResult # None /\ TwoPatterns(args[1]) /\ ~filterResult[1].throws) =>
        LET p1 == args[1].source.items[1].str
            p2 == args[1].source.items[2].str
            out == filterResult[1].value
        IN  (\E i \in 1..Len(ds) : SourceMatchesPattern(ds[i], p1)) =>
                \A j \in 1..Len(out) :
                    ~(SourceMatchesPattern(out[j], p2) /\ ~SourceMatchesPattern(out[j], p1))

\* C6 amended: with sourcePatterns = [p1, p2], if some marker of M that
\* passes the severity stage has a source matching p1, no marker of the
\* result matches p2 but not p1.
C6_PriorityAfterSeverity ==
    (filterResult # None /\ TwoPatterns(args[1]) /\ ~filterResult[1].throws) =>
        LET p1 == args[1].source.items[1].str
            p2 == args[1].source.items[2].str
            out == filterResult[1].value
            sevs == SeveritySet(args[1])
        IN  (\E i \in 1..Len(ds) :
                ds[i].severity \in sevs /\ SourceMatchesPattern(ds[i], p1)) =>
                \A j \in 1..Len(out) :
                    ~(SourceMatchesPattern(out[j], p2) /\ ~SourceMatchesPattern(out[j], p1))

\* C6 witness: a marker matching only p2 passed the severity stage beside
\* one matching p1, and the result holds the p1 marker alone.
C6_Witness ==
    /\ filterResult # None
    /\ TwoPatterns(args[1])
    /\ Len(ds) = 2
    /\ LET p1 == args[1].source.items[1].str
           p2 == args[1].source.items[2].str
           sevs == SeveritySet(args[1])
       IN  /\ \A i \in 1..2 : ds[i].severity \in sevs
           /\ SourceMatchesPattern(ds[1], p2) /\ ~SourceMatchesPattern(ds[1], p1)
           /\ SourceMatchesPattern(ds[2], p1)
           /\ filterResult[1] = Returned(<<ds[2]>>)

\* Does the list hold an entry that names a severity?
HasRecognizedEntry(v) ==
    \E i \in 1..Len(v.items) :
        /\ v.items[i].type = "string"
        /\ v.items[i].str \in RecognizedSeverityStrings

\* C7: a severity list without a recognized value keeps exactly the markers
\* of severity Error or Warning, and a list that mixes recognized and
\* unrecognized values selects exactly the recognized severities.
C7_UnrecognizedSeverityFallsBack ==
    (/\ filterResult # None
     /\ args[1].type = "object"
     /\ args[1].severity.type = "array"
     /\ args[1].source = JsUndefined) =>
        LET sev == args[1].severity
            named == {NamedSeverity(sev.items[i].str) :
                        i \in {j \in 1..Len(sev.items) :
                                /\ sev.items[j].type = "string"
                                /\ sev.items[j].str \in RecognizedSeverityStrings}}
            expected == IF HasRecognizedEntry(sev) THEN named ELSE {Error, Warning}
        IN  filterResult[1] =
                Returned(Pick(ds, {i \in 1..Len(ds) : ds[i].severity \in expected}, 1))

\* C8: whatever args a command receives, filterDiagnostics raises no error
\* and returns a list of markers of ds.
C8_FilterNeverThrows ==
    filterResult # None =>
        /\ ~filterResult[1].throws
        /\ \A j \in 1..Len(filterResult[1].value) :
              \E i \in 1..Len(ds) : ds[i] = filterResult[1].value[j]

(***************************************************************************)
(* Claims about the Closest-Marker Selector (SpecFold)                     *)
(***************************************************************************)
FoldDone == index = Len(markers)

\* The candidates at or after the cursor, and those at or before it.
AtOrAfterCursor ==
    {i \in 1..Len(markers) : compareDiagnosticLoc(markers[i], cursor[1]) >= 0}
AtOrBeforeCursor ==
    {i \in 1..Len(markers) : compareDiagnosticLoc(markers[i], cursor[1]) <= 0}

\* C1: the fold of getCloserNext from null yields a candidate that is the
\* minimum of the candidates at or after the cursor, and null exactly when
\* there is none.
C1_TightnessNext ==
    (FoldDone /\ direction = "next") =>
        /\ soFarClosest = None <=> AtOrAfterCursor = {}
        /\ soFarClosest # None =>
              /\ \E i \in AtOrAfterCursor : markers[i] = soFarClosest[1]
              /\ \A i \in AtOrAfterCursor :
                    compareDiagnosticLoc(soFarClosest[1], markers[i]) <= 0

\* C1 witness: a fold over three candidates ended on the second one, with a
\* candidate before the cursor and a farther one after it.
C1_Witness ==
    /\ FoldDone /\ direction = "next" /\ Len(markers) = 3
    /\ soFarClosest = Some(markers[2])
    /\ compareDiagnosticLoc(markers[1], cursor[1]) > 0
    /\ compareDiagnosticLoc(markers[2], markers[1]) < 0
    /\ compareDiagnosticLoc(markers[3], cursor[1]) < 0
    /\ cursor[1].uri # None

\* C2: the fold of getCloserPrev from null yields the maximum of the
\* candidates at or before the cursor (one exactly at the cursor included,
\* also as the first candidate seen), and null exactly when there is none.
C2_TightnessPrev ==
    (FoldDone /\ direction = "prev") =>
        /\ soFarClosest = None <=> AtOrBeforeCursor = {}
        /\ soFarClosest # None =>
              /\ \E i \in AtOrBeforeCursor : markers[i] = soFarClosest[1]
              /\ \A i \in AtOrBeforeCursor :
                    compareDiagnosticLoc(soFarClosest[1], markers[i]) >= 0

(***************************************************************************)
(* Claims about the Navigation Session (Spec)                              *)
(*                                                                         *)
(* A step that starts a command leads from a state without a request to    *)
(* one with the command's record; the formulas below relate the session    *)
(* before such a step to the record and the session after it.              *)
(***************************************************************************)
Started == request = None /\ request' # None

\* The markers in the scope of command r that pass its filter, each with
\* the uri of its document.
RECURSIVE MarkersOf(_, _)
MarkersOf(l, u) ==
    IF l = <<>> THEN <<>>
    ELSE (IF Head(l).uri = Some(u) THEN <<Head(l)>> ELSE <<>>) \o MarkersOf(Tail(l), u)

FilteredScope(r, editor) ==
    IF r.command = "file"
    THEN IF editor = None THEN <<>>
         ELSE filterDiagnostics(MarkersOf(diagnostics, editor[1].uri), r.args).value
    ELSE filterDiagnostics(diagnostics, r.args).value

\* The cursor location of a command: the active selection, or the start of
\* the root for a cross-document command without an editor.
CursorLocation(editor) ==
    IF editor = None THEN [uri |-> Some(RootUri), start |-> Position(0, 0)]
    ELSE [uri |-> Some(editor[1].uri), start |-> editor[1].selection]

\* The candidates the loop skips: those that start at the position of
\* lastPosition, which in-document mode first drops when it is of another
\* document.
SkippedBy(r, editor, lp, m) ==
    /\ lp # None
    /\ r.command = "file" => (editor # None /\ lp[1].uri = editor[1].uri)
    /\ m.start = lp[1].position

Directional(r, editor, m) ==
    IF r.direction = "next"
    THEN compareDiagnosticLoc(Loc(m), CursorLocation(editor)) >= 0
    ELSE compareDiagnosticLoc(Loc(m), CursorLocation(editor)) <= 0

\* m is the first (next) or the last (prev) marker of l in the order of the
\* location comparator.
IsEndOf(m, l, dir) ==
    /\ \E i \in 1..Len(l) : Loc(l[i]) = Loc(m)
    /\ \A i \in 1..Len(l) :
          IF dir = "next" THEN compareDiagnosticLoc(Loc(m), Loc(l[i])) <= 0
          ELSE compareDiagnosticLoc(Loc(m), Loc(l[i])) >= 0

\* C3: in a request that wraps (in-document with loop, or cross-document),
\* if no candidate that is not skipped lies in the direction asked for, the
\* target is the first (next) or last (prev) marker of the sorted filtered set.
C3_Wraparound ==
    [][Started =>
        \A r \in {request'[1]} :
        \A scope \in {FilteredScope(r, activeTextEditor)} :
            (/\ r.command = "file" => (r.loop /\ activeTextEditor # None)
             /\ scope # <<>>
             /\ \A i \in 1..Len(scope) :
                   SkippedBy(r, activeTextEditor, lastPosition, scope[i])
                       \/ ~Directional(r, activeTextEditor, scope[i]))
            => /\ r.target # None
               /\ IsEndOf(r.target[1], scope, r.direction)]_vars

\* C3 witness: a request wrapped around to the far end of a filtered set of
\* two markers at different locations.
C3_Witness ==
    /\ request # None
    /\ request[1].wrapped
    /\ request[1].target # None
    /\ LET scope == FilteredScope(request[1], activeTextEditor)
       IN  /\ Len(scope) = 2
           /\ Loc(scope[1]) # Loc(scope[2])
           /\ IsEndOf(request[1].target[1], scope, request[1].direction)

\* The location lastPosition stores.
LastLocation(lp) == [uri |-> Some(lp[1].uri), start |-> lp[1].position]

\* C4: when lastPosition is the location of the cursor, a request selects
\* no marker at that location, unless the filtered scope holds no marker
\* anywhere else.  (A marker is told from another by its location, document
\* and start, as the session state records it.)
C4_Dedup ==
    [][Started =>
        \A r \in {request'[1]} :
        \A scope \in {FilteredScope(r, activeTextEditor)} :
            (/\ lastPosition # None
             /\ activeTextEditor # None
             /\ CursorLocation(activeTextEditor) = LastLocation(lastPosition)
             /\ r.target # None
             /\ \E i \in 1..Len(scope) : Loc(scope[i]) # LastLocation(lastPosition))
            => Loc(r.target[1]) # LastLocation(lastPosition)]_vars

\* C10: in-document mode with loop: when the filtered set is one marker and
\* lastPosition and the cursor are both at its start, the request returns
\* true, leaves the cursor and lastPosition as they were and issues no
\* request to the editor.
C10_SingleMarkerNoOp ==
    [][Started =>
        \A r \in {request'[1]} :
        \A scope \in {FilteredScope(r, activeTextEditor)} :
            (/\ r.command = "file" /\ r.loop
             /\ activeTextEditor # None
             /\ Len(scope) = 1
             /\ lastPosition # None
             /\ LastLocation(lastPosition) = Loc(scope[1])
             /\ CursorLocation(activeTextEditor) = Loc(scope[1]))
            => /\ r.returned = "true"
               /\ activeTextEditor' = activeTextEditor
               /\ lastPosition' = lastPosition
               /\ r.outputs = <<>>]_vars

\* C10 witness: an in-document request returned true without issuing any
\* request, the filtered set being one marker, with the cursor and
\* lastPosition on it.
C10_Witness ==
    /\ request # None
    /\ request[1].command = "file"
    /\ request[1].returned = "true"
    /\ request[1].outputs = <<>>
    /\ LET scope == FilteredScope(request[1], activeTextEditor)
       IN  /\ Len(scope) = 1
           /\ Len(diagnostics) = 2
           /\ lastPosition # None
           /\ LastLocation(lastPosition) = Loc(scope[1])
           /\ CursorLocation(activeTextEditor) = Loc(scope[1])

\* C11: in both modes a request skips a candidate only if lastPosition, as
\* the request found it, is of the candidate's document and at its start.
C11_SkipOnlySameDocument ==
    [][Started =>
        \A r \in {request'[1]} :
        \A i \in 1..Len(r.skipped) :
            /\ lastPosition # None
            /\ Loc(r.skipped[i]) = LastLocation(lastPosition)]_vars

\* C12 as claimed: a request that ends without a target leaves lastPosition
\* as it was.
C12_NoTargetNoChange ==
    [][(Started /\ request'[1].target = None)
        => lastPosition' = lastPosition]_vars

\* C12 amended: a request that ends without a target leaves lastPosition as
\* it was, except that an in-document request with an active editor clears
\* a lastPosition recorded for another document.
C12_NoTargetOnlyResets ==
    [][(Started /\ request'[1].target = None)
        => lastPosition' =
             IF /\ request'[1].command = "file"
                /\ activeTextEditor # None
                /\ lastPosition # None
                /\ lastPosition[1].uri # activeTextEditor[1].uri
             THEN None
             ELSE lastPosition]_vars

\* C12 witness: an in-document request with loop disabled found no neighbour
\* among the markers of its scope and kept the lastPosition of that document.
C12_Witness ==
    /\ request # None
    /\ request[1].command = "file"
    /\ ~request[1].loop
    /\ request[1].target = None
    /\ FilteredScope(request[1], activeTextEditor) # <<>>
    /\ lastPosition # None
    /\ lastPosition[1].uri = activeTextEditor[1].uri

(***************************************************************************)
(* Claims about the Location Comparator (SpecCompare)                      *)
(***************************************************************************)
\* compare(x, x) = equal, and compare(x, y) is the opposite of compare(y, x).
ReflexiveAndOpposite ==
    \A i, j \in 1..3 :
        /\ compared[1][i][i] = 0
        /\ compared[1][i][j] = -compared[1][j][i]

\* locs[i] <= locs[j] and locs[j] <= locs[k] imply locs[i] <= locs[k].
Transitive(i, j, k) ==
    (compared[1][i][j] <= 0 /\ compared[1][j][k] <= 0) => compared[1][i][k] <= 0

\* Two of the three locations carry different uris and one carries none.
AcrossKinds ==
    /\ \E i \in 1..3 : locs[i].uri = None
    /\ \E i, j \in 1..3 :
          locs[i].uri # None /\ locs[j].uri # None /\ locs[i].uri # locs[j].uri

\* C13 as claimed: the comparator is reflexive, antisymmetric and transitive
\* over all locations, those without a uri included.
C13_TotalOrder ==
    compared # None =>
        /\ ReflexiveAndOpposite
        /\ \A i, j, k \in 1..3 : Transitive(i, j, k)

\* C13 amended: reflexivity and antisymmetry hold over all locations;
\* transitivity holds for every three locations except when two of them
\* carry different uris and the third carries none.
C13_TotalOrderWithinKind ==
    compared # None =>
        /\ ReflexiveAndOpposite
        /\ ~AcrossKinds => \A i, j, k \in 1..3 : Transitive(i, j, k)

\* C13 witness: three different locations in ascending order, one of them
\* without a uri, the other two of one document.
C13_Witness ==
    /\ compared # None
    /\ locs[1].uri = None /\ locs[2].uri # None /\ locs[3].uri = locs[2].uri
    /\ compared[1][1][2] < 0 /\ compared[1][2][3] < 0 /\ compared[1][1][3] < 0

(***************************************************************************)
(* Further Claims about the Closest-Marker Selector (SpecFold)             *)
(***************************************************************************)
\* C14: at no step of the fold from null is the closest marker so far
\* strictly before the cursor (next) or strictly after it (prev).
C14_DirectionalCorrectness ==
    soFarClosest # None =>
        IF direction = "next"
        THEN compareDiagnosticLoc(Loc(soFarClosest[1]), cursor[1]) >= 0
        ELSE compareDiagnosticLoc(Loc(soFarClosest[1]), cursor[1]) <= 0

\* C14 witness: a prev fold holds a closest marker after it has met one
\* candidate strictly after the cursor and two not after it.
C14_Witness ==
    /\ direction = "prev"
    /\ index = 3
    /\ soFarClosest # None
    /\ compareDiagnosticLoc(Loc(markers[1]), cursor[1]) < 0
    /\ compareDiagnosticLoc(Loc(markers[2]), cursor[1]) > 0
    /\ compareDiagnosticLoc(Loc(markers[3]), cursor[1]) < 0
    /\ soFarClosest[1] = markers[3]

(***************************************************************************)
(* Further Claims about the Navigation Session (Spec)                      *)
(***************************************************************************)
\* s has an element equal to x.
Issued(s, x) == \E i \in 1..Len(s) : s[i] = x

\* C15: an in-document request that moved to a target issues the built-in
\* jump to the next marker exactly when the configured severities are
\* {Error}, and the hover exactly when they are not.
C15_MarkerNextIffErrorOnly ==
    [][Started =>
        \A r \in {request'[1]} :
            (r.command = "file" /\ r.target # None /\ r.outputs # <<>>)
            => /\ Issued(r.outputs, "editor.action.marker.next")
                    <=> ConfiguredSeverities(r.args) = {Error}
               /\ Issued(r.outputs, "editor.action.showHover")
                    <=> ConfiguredSeverities(r.args) # {Error}]_vars

\* C16: a request that selects a target or reports success leaves in
\* lastPosition the document and start of its target; and every step leaves
\* lastPosition as it was, empties it, or sets it to the location of the
\* target a request selects in that step.
C16_LastPositionIsTarget ==
    [][/\ (Started /\ (request'[1].target # None \/ request'[1].returned = "true"))
            => /\ request'[1].target # None
               /\ lastPosition' # None
               /\ LastLocation(lastPosition') = Loc(request'[1].target[1])
       /\ \/ lastPosition' = lastPosition
          \/ lastPosition' = None
          \/ /\ Started
             /\ request'[1].target # None
             /\ lastPosition' # None
             /\ LastLocation(lastPosition') = Loc(request'[1].target[1])]_vars

\* C16 witness: a cross-document request wrapped around to a target in a
\* document other than the one lastPosition made it skip a candidate of,
\* and lastPosition is the location of that target.
C16_Witness ==
    /\ request # None
    /\ request[1].command = "files"
    /\ request[1].wrapped
    /\ request[1].target # None
    /\ lastPosition # None
    /\ LastLocation(lastPosition) = Loc(request[1].target[1])
    /\ \E i \in 1..Len(request[1].skipped) :
          request[1].skipped[i].uri # request[1].target[1].uri

(***************************************************************************)
(* Claims about Overlapping Requests (SpecAsync)                           *)
(***************************************************************************)
\* C17: a request that has read lastPosition and chosen its target writes
\* lastPosition in the very next step, and lastPosition is then still what
\* the request read: no step of another request falls between its reads
\* and its write.
C17_LastPositionCriticalSection ==
    [][\A t \in Tasks :
          tasks[t].pc = "computed"
          => /\ tasks'[t].pc # "computed"
             /\ lastPosition = tasks[t].read
             /\ lastPosition' = Some([position |-> tasks[t].target[1].start,
                                      uri |-> tasks[t].target[1].uri[1]])]_vars

\* C17 witness: a request is between its reads and its write of
\* lastPosition while another request is suspended at an await, having
\* written a lastPosition that the first one read.
C17_Witness ==
    \E t \in Tasks, o \in Tasks :
        /\ t # o
        /\ tasks[t].pc = "computed"
        /\ tasks[o].pc \in {"open", "show", "close", "scroll", "mark"}
        /\ tasks[t].read # None
        /\ LastLocation(tasks[t].read) = Loc(tasks[o].target[1])

\* C20: once two cross-document requests of which one started while the
\* other awaited its document have both returned, the active editor shows
\* the document of lastPosition with the cursor at its position.
C20_CursorAgreesWithLastPosition ==
    (/\ \A t \in Tasks :
           /\ tasks[t].pc = "done"
           /\ tasks[t].command = "files"
           /\ tasks[t].target # None
     /\ \E t \in Tasks : tasks[t].overlap)
    => /\ lastPosition # None
       /\ activeTextEditor =
            Some([uri |-> lastPosition[1].uri, selection |-> lastPosition[1].position])

(***************************************************************************)
(* Claims about Repeated Requests (SpecCycle)                              *)
(***************************************************************************)
CycleLocations == [uri : {Some(u) : u \in Uris}, start : CyclePositions]

\* The command that is repeated.
CycleCommand == IF fixed = None THEN "none" ELSE fixed[1].command

\* The markers the repeated command navigates.
CycleScope ==
    IF fixed = None THEN <<>> ELSE FilteredScope(fixed[1], activeTextEditor)

InCycleScope(loc) == \E i \in 1..Len(CycleScope) : Loc(CycleScope[i]) = loc

\* The request that has just run selected the marker at loc.
CycleSelected(loc) ==
    /\ request # None
    /\ request[1].target # None
    /\ Loc(request[1].target[1]) = loc

\* m is the marker location that follows location c among the locations of
\* l in direction dir, the far end of l when none lies beyond c.
IsSuccessorOf(m, c, l, dir) ==
    LET beyond(x) == IF dir = "next" THEN compareDiagnosticLoc(x, c) > 0
                     ELSE compareDiagnosticLoc(x, c) < 0
    IN  IF \E i \in 1..Len(l) : beyond(Loc(l[i]))
        THEN /\ beyond(Loc(m))
             /\ \E i \in 1..Len(l) : Loc(l[i]) = Loc(m)
             /\ \A i \in 1..Len(l) :
                   beyond(Loc(l[i])) =>
                      IF dir = "next"
                      THEN compareDiagnosticLoc(Loc(m), Loc(l[i])) <= 0
                      ELSE compareDiagnosticLoc(Loc(m), Loc(l[i])) >= 0
        ELSE IsEndOf(m, l, dir)

C19_CrossDocumentCycling ==
    \A loc \in CycleLocations :
        []<>((CycleCommand = "files" /\ InCycleScope(loc)) => CycleSelected(loc))

=============================================================================
